---- MODULE Spec2Model ----
(***************************************************************************)
(* Model of scripts/enforce_use_groups.py: the rewriting of the leading    *)
(* `use` / `mod` block of a Rust source file.                              *)
(*                                                                         *)
(* A text is a sequence of lexemes (keywords, identifiers, punctuation,    *)
(* the blank " " and the line terminator "\n"); a line is the text up to   *)
(* and including its "\n".  Every string operation of the script (strip,   *)
(* startswith, split, the regular expressions, the f-strings that render   *)
(* a merged statement) is modelled on lexeme sequences, so that rendering  *)
(* a statement and segmenting it again are two different computations.     *)
(***************************************************************************)
EXTENDS Integers, Sequences, FiniteSets, TLC

VARIABLES
  fname,   \* the name of the source file (path.name)
  text,    \* its current content
  crates,  \* WORKSPACE_CRATES, the internal package set
  prev,    \* the content the last call of process_file read
  ret,     \* what the last call of process_file returned
  ran      \* whether process_file has been called on the file

\* a run of the script over a tree, from the __main__ block to its exit
VARIABLES
  cwd,        \* the parts of Path.cwd()
  manifests,  \* the Cargo.toml of every directory of the tree
  files,      \* the *.rs files of the tree: relative path -> content
  orig,       \* the files as they were when the run began
  walk,       \* the directories os.walk has still to yield
  todo,       \* the paths rglob has still to yield
  changed,    \* main's list of rewritten paths
  stdout,     \* what the run has printed
  cargo,      \* how the formatter behaves on this machine
  pc,         \* where the run stands
  status      \* the exit status of the process, None while it runs

\* a run of run_with_watchdog.py, from the Popen call to the return of main
VARIABLES
  inactivity_limit,  \* max(0, args.inactivity_timeout), in seconds
  notify_interval,   \* max(0, args.notify_interval), in seconds
  wpc,               \* where the watchdog stands
  ready_fds,         \* whether the last select found the pipe readable
  age_output,        \* seconds since last_output
  age_notify,        \* seconds since last_notify
  select_wait,       \* seconds the select under way has waited
  exit_code,         \* main's exit_code, NoCode for None
  console,           \* what the watchdog has written to sys.stdout
  log_file,          \* what it has written to the log file
  child,             \* the command: "running" or "exited"
  child_out,         \* the command's end of the pipe: "open" or "closed"
  child_rc,          \* the exit code of the command once it has exited
  pipe,              \* the chunks written to the pipe and not yet read
  produced,          \* every chunk the command has written, in order
  silent             \* seconds since the command last wrote a chunk

\* the two loops of process_file and the loops of collect_statement, one
\* iteration at a time
VARIABLES
  src,        \* lines, the lines of the file
  loop,       \* the loop under way
  at,         \* idx, then cur, of process_file
  scan,       \* cur of collect_statement
  balance,    \* brace_balance of collect_statement
  collected   \* the statements collected so far: kind, first and last line

fileVars == <<fname, text, prev, ret, ran>>

wdVars ==
  <<inactivity_limit, notify_interval, wpc, ready_fds, age_output, age_notify,
    select_wait, exit_code, console, log_file, child, child_out, child_rc,
    pipe, produced, silent>>

segVars == <<src, loop, at, scan, balance, collected>>

runVars ==
  <<cwd, manifests, files, orig, walk, todo, changed, stdout, cargo, pc, status>>

\* the variables of the machines other than the single-file machine, the
\* run of the script, the watchdog and the line loops
notFile == <<runVars, wdVars, segVars>>

notRun == <<fileVars, wdVars, segVars>>

notWatchdog == <<fileVars, crates, runVars, segVars>>

notLoops == <<fileVars, crates, runVars, wdVars>>

vars == <<fileVars, crates, runVars, wdVars, segVars>>

-----------------------------------------------------------------------------
(* Strings *)

\* Python's None for an Optional[str]: a value no text is equal to.
None == <<"<None>">>

\* `not s` for an Optional[str]
Falsy(s) == s = None \/ s = <<>>

WS == {" ", "\n"}

Punct == {"::", "{", "}", ",", ";", "*", "#[", "]", "//", "/*", "#!"}

\* a lexeme made of word characters (\w), for the regex anchor \b
IsWord(t) == t \notin WS /\ t \notin Punct

RECURSIVE lstrip(_)
lstrip(s) == IF s # <<>> /\ Head(s) \in WS THEN lstrip(Tail(s)) ELSE s

RECURSIVE rstrip(_)
rstrip(s) ==
  IF s # <<>> /\ s[Len(s)] \in WS THEN rstrip(SubSeq(s, 1, Len(s) - 1)) ELSE s

strip(s) == rstrip(lstrip(s))

\* str.lstrip(":")
RECURSIVE lstripColons(_)
lstripColons(s) ==
  IF s # <<>> /\ Head(s) = "::" THEN lstripColons(Tail(s)) ELSE s

startswith(s, p) == Len(s) >= Len(p) /\ SubSeq(s, 1, Len(p)) = p

\* number of occurrences of lexeme t in s (str.count)
count(s, t) == Cardinality({i \in 1..Len(s) : s[i] = t})

\* index of the first lexeme of s that lies in S, 0 when there is none
FirstIn(s, S) ==
  IF \E i \in 1..Len(s) : s[i] \in S
  THEN CHOOSE i \in 1..Len(s) : s[i] \in S /\ \A j \in 1..(i - 1) : s[j] \notin S
  ELSE 0

\* sep.join(parts)
RECURSIVE join(_, _)
join(sep, parts) ==
  IF parts = <<>> THEN <<>>
  ELSE IF Len(parts) = 1 THEN parts[1]
  ELSE parts[1] \o sep \o join(sep, Tail(parts))

\* "".join(lines)
RECURSIVE concat(_)
concat(lines) == IF lines = <<>> THEN <<>> ELSE Head(lines) \o concat(Tail(lines))

\* str.splitlines(keepends=True)
RECURSIVE splitlines(_)
splitlines(t) ==
  IF t = <<>> THEN <<>>
  ELSE LET n == FirstIn(t, {"\n"})
       IN IF n = 0 THEN <<t>>
          ELSE <<SubSeq(t, 1, n)>> \o splitlines(SubSeq(t, n + 1, Len(t)))

\* s.split("::")
RECURSIVE splitAll(_)
splitAll(s) ==
  LET n == FirstIn(s, {"::"})
  IN IF n = 0 THEN <<s>>
     ELSE <<SubSeq(s, 1, n - 1)>> \o splitAll(SubSeq(s, n + 1, Len(s)))

\* the elements of a sequence that satisfy a test given as a set of indices
RECURSIVE SelectIdx(_, _, _)
SelectIdx(s, keep, i) ==
  IF i > Len(s) THEN <<>>
  ELSE (IF i \in keep THEN <<s[i]>> ELSE <<>>) \o SelectIdx(s, keep, i + 1)

-----------------------------------------------------------------------------
(* Line recognisers *)

GROUP1_CRATES ==
  {"std", "core", "alloc", "anyhow", "serde", "serde_json", "serde_yaml",
   "serde_repr", "serde_with", "serde_bytes", "serde_path_to_error",
   "serde_cbor", "serde_urlencoded", "serde_json_path", "toml", "ron",
   "regex", "lazy_static", "once_cell", "clap", "tokio", "futures",
   "async_std", "time", "chrono", "log", "env_logger", "thiserror",
   "color_eyre", "eyre", "uuid", "tempfile", "rand", "base64", "bytes",
   "smallvec", "itertools", "indexmap", "cfg_if", "tracing",
   "tracing_subscriber", "indicatif", "parking_lot", "crossbeam",
   "tokio_stream", "tokio_util", "tokio_macros", "reqwest", "hyper",
   "anymap", "bstr", "dashmap", "hashbrown", "im", "prost", "prost_types",
   "tonic", "url", "urlencoding", "walkdir", "which", "rayon", "backtrace",
   "bytemuck", "bytesize", "csv", "flate2", "glob", "hex", "http", "num",
   "num_traits", "ordered_float", "petgraph", "rand_chacha", "rand_core",
   "redox_syscall", "rust_decimal", "serde_xml_rs", "sha2", "snap", "strum",
   "strum_macros", "tokio_test", "tracing_core", "typemap", "warp", "whoami",
   "xml_rs"}

\* ^\s*(pub\s+)?KEYWORD\b
KeywordOpener(line, kw) ==
  LET s == lstrip(line)
      AtKw(r) == r # <<>> /\ Head(r) = kw /\ (Len(r) = 1 \/ ~IsWord(r[2]))
  IN \/ AtKw(s)
     \/ /\ Len(s) >= 2
        /\ s[1] = "pub"
        /\ s[2] \in WS
        /\ AtKw(lstrip(Tail(s)))

USE_RE(line) == KeywordOpener(line, "use")

MOD_RE(line) == KeywordOpener(line, "mod")

ATTR_RE(line) == LET s == lstrip(line) IN s # <<>> /\ Head(s) = "#["

COMMENT_RE(line) == LET s == lstrip(line) IN s # <<>> /\ Head(s) = "//"

BLOCK_COMMENT_START_RE(line) == LET s == lstrip(line) IN s # <<>> /\ Head(s) = "/*"

-----------------------------------------------------------------------------
(* Statement classifier *)

\* the lines of a statement that are not attribute lines
CodeLines(lines) == SelectIdx(lines, {i \in 1..Len(lines) : ~ATTR_RE(lines[i])}, 1)

StripEach(lines) == [i \in 1..Len(lines) |-> strip(lines[i])]

\* re.search(r"\buse\s+([^;]+);", joined), group 1, from position i on
RECURSIVE SearchUse(_, _)
SearchUse(j, i) ==
  IF i > Len(j) THEN None
  ELSE IF j[i] = "use" /\ (i = 1 \/ ~IsWord(j[i - 1]))
       THEN LET rest == SubSeq(j, i + 1, Len(j))
                afterWs == lstrip(rest)
                w == Len(rest) - Len(afterWs)
                q == FirstIn(afterWs, {";"})
            IN IF w >= 1 /\ q > 1 THEN SubSeq(afterWs, 1, q - 1)
               ELSE IF w >= 2 /\ q = 1 THEN <<rest[w]>>
               ELSE SearchUse(j, i + 1)
       ELSE SearchUse(j, i + 1)

extract_use_path(lines) ==
  LET joined == join(<<" ">>, StripEach(CodeLines(lines)))
      m == SearchUse(joined, 1)
  IN IF m = None THEN None ELSE strip(m)

\* token[4:].strip() when token starts with "pub " / "use "
DropLead(token, kw) ==
  IF startswith(token, <<kw, " ">>) THEN strip(SubSeq(token, 3, Len(token)))
  ELSE token

\* re.split(r"::|,|\s|{", token, maxsplit=1)[0]
SplitBase(token) ==
  LET n == FirstIn(token, {"::", ",", "{"} \cup WS)
  IN IF n = 0 THEN token ELSE SubSeq(token, 1, n - 1)

\* a classifier that consults the allow-list before the internal package set
classify_use_AllowListFirst(path, workspace_crates) ==
  IF Falsy(path) THEN 2
  ELSE LET t0 == DropLead(DropLead(strip(path), "pub"), "use")
       IN IF \/ startswith(t0, <<"crate", "::">>)
             \/ startswith(t0, <<"self", "::">>)
             \/ startswith(t0, <<"super", "::">>)
          THEN 3
          ELSE LET token == IF startswith(t0, <<"::">>) THEN lstripColons(t0) ELSE t0
                   base == SplitBase(token)
               IN IF base \in {<<"crate">>, <<"self">>, <<"super">>} THEN 3
                  ELSE IF \E c \in GROUP1_CRATES : base = <<c>> THEN 1
                  ELSE IF \E c \in workspace_crates : base = <<c>> THEN 3
                  ELSE 2

classify_use(path, workspace_crates) ==
  IF Falsy(path) THEN 2
  ELSE LET t0 == DropLead(DropLead(strip(path), "pub"), "use")
       IN IF \/ startswith(t0, <<"crate", "::">>)
             \/ startswith(t0, <<"self", "::">>)
             \/ startswith(t0, <<"super", "::">>)
          THEN 3
          ELSE LET token == IF startswith(t0, <<"::">>) THEN lstripColons(t0) ELSE t0
                   base == SplitBase(token)
               IN IF base \in {<<"crate">>, <<"self">>, <<"super">>} THEN 3
                  ELSE IF \E c \in workspace_crates : base = <<c>> THEN 3
                  ELSE IF \E c \in GROUP1_CRATES : base = <<c>> THEN 1
                  ELSE 2

\* " as " in token
HasAs(token) ==
  \E i \in 1..(Len(token) - 2) :
     token[i] = " " /\ token[i + 1] = "as" /\ token[i + 2] = " "

compute_simple_components(path, has_attrs) ==
  IF has_attrs \/ Falsy(path) THEN <<None, None>>
  ELSE LET token == strip(path)
           parts == splitAll(token)
           n == Len(parts)
           prefix == join(<<"::">>, SubSeq(parts, 1, n - 1))
           leaf == strip(parts[n])
       IN IF \E i \in 1..Len(token) : token[i] \in {"{", "}", "*"}
          THEN <<None, None>>
          ELSE IF HasAs(token) THEN <<None, None>>
          ELSE IF token[Len(token)] = "::" THEN <<None, None>>
          ELSE IF n < 2 THEN <<None, None>>
          ELSE IF prefix = <<>> \/ leaf = <<>> THEN <<None, None>>
          ELSE <<prefix, leaf>>

compute_merge_components(path, has_attrs) ==
  IF has_attrs \/ Falsy(path) THEN <<None, None>>
  ELSE LET token == lstripColons(DropLead(DropLead(strip(path), "pub"), "use"))
           n == FirstIn(token, {"::"})
       IN IF n = 0 THEN <<token, <<>>>>
          ELSE <<SubSeq(token, 1, n - 1), SubSeq(token, n + 1, Len(token))>>

\* the UseStatement that build_use_statement returns; simple and merge are the
\* pairs returned by compute_simple_components and compute_merge_components
UseStatement(lines, path, is_pub, group, simple, has_attrs, merge) ==
  [lines |-> lines,
   path |-> path,
   is_pub |-> is_pub,
   group |-> group,
   simple_prefix |-> simple[1],
   simple_leaf |-> simple[2],
   has_attrs |-> has_attrs,
   merge_base |-> merge[1],
   merge_remainder |-> merge[2]]

\* any(ATTR_RE.match(line) for line in lines)
AnyAttr(lines) == \E i \in 1..Len(lines) : ATTR_RE(lines[i])

\* code_lines and code_lines[0].lstrip().startswith("pub ")
IsPub(code_lines) ==
  code_lines # <<>> /\ startswith(lstrip(code_lines[1]), <<"pub", " ">>)

\* build_use_statement once path and has_attrs are known
BuildFrom(lines, path, has_attrs, workspace_crates) ==
  UseStatement(lines, path, IsPub(CodeLines(lines)),
               classify_use(path, workspace_crates),
               compute_simple_components(path, has_attrs),
               has_attrs,
               compute_merge_components(path, has_attrs))

build_use_statement(lines, workspace_crates) ==
  BuildFrom(lines, extract_use_path(lines), AnyAttr(lines), workspace_crates)

-----------------------------------------------------------------------------
(* Statement segmenter *)

\* Statement(kind, lines, use_stmt); use_stmt is None for a "mod" statement
Statement(kind, lines, use_stmt) ==
  [kind |-> kind, lines |-> lines, use_stmt |-> use_stmt]

\* while cur < len(lines) and ATTR_RE.match(lines[cur]): cur += 1
RECURSIVE SkipAttrs(_, _)
SkipAttrs(lines, cur) ==
  IF cur <= Len(lines) /\ ATTR_RE(lines[cur]) THEN SkipAttrs(lines, cur + 1) ELSE cur

BraceDelta(line) == count(line, "{") - count(line, "}")

\* while not semicolon_found and cur < len(lines): ... ; the index after the loop
RECURSIVE UseEnd(_, _, _)
UseEnd(lines, cur, brace_balance) ==
  IF cur > Len(lines) THEN cur
  ELSE LET b == brace_balance + BraceDelta(lines[cur])
       IN IF count(lines[cur], ";") > 0 /\ b <= 0 THEN cur + 1
          ELSE UseEnd(lines, cur + 1, b)

\* returns (statement or nothing, next index); indices are 1-based
collect_statement(lines, idx, workspace_crates) ==
  LET cur == SkipAttrs(lines, idx)
      nothing == [found |-> FALSE, stmt |-> Statement("none", <<>>, None), next |-> idx]
  IN IF cur > Len(lines) THEN nothing
     ELSE LET line == lines[cur]
              b0 == BraceDelta(line)
              end == IF count(line, ";") > 0 /\ b0 <= 0 THEN cur + 1
                     ELSE UseEnd(lines, cur + 1, b0)
              use_lines == SubSeq(lines, idx, end - 1)
          IN IF USE_RE(line)
             THEN [found |-> TRUE,
                   stmt |-> Statement("use", use_lines,
                                      build_use_statement(use_lines, workspace_crates)),
                   next |-> end]
             ELSE IF MOD_RE(line)
             THEN [found |-> TRUE,
                   stmt |-> Statement("mod", SubSeq(lines, idx, cur), None),
                   next |-> cur + 1]
             ELSE nothing

-----------------------------------------------------------------------------
(* Merge and render engine *)

\* the distinct elements of a sequence in first-seen order
RECURSIVE Unique(_)
Unique(s) ==
  IF s = <<>> THEN <<>>
  ELSE LET init == Unique(SubSeq(s, 1, Len(s) - 1))
           last == s[Len(s)]
       IN IF \E i \in 1..Len(init) : init[i] = last THEN init ELSE Append(init, last)

PubUse(is_pub) == (IF is_pub THEN <<"pub", " ">> ELSE <<>>) \o <<"use", " ">>

\* a flush that writes the bracketed form for a single leaf too
FlushLine_AlwaysBraced(is_pub, prefix, unique_leaves) ==
  PubUse(is_pub) \o prefix \o <<"::", "{">>
    \o join(<<",", " ">>, unique_leaves) \o <<"}", ";", "\n">>

\* the line flush_simple writes for one pending bucket
FlushLine(is_pub, prefix, unique_leaves) ==
  IF Len(unique_leaves) = 1
  THEN PubUse(is_pub) \o prefix \o <<"::">> \o unique_leaves[1] \o <<";", "\n">>
  ELSE PubUse(is_pub) \o prefix \o <<"::", "{">>
         \o join(<<",", " ">>, unique_leaves) \o <<"}", ";", "\n">>

\* pending is the OrderedDict as a sequence of [key, leaves] in insertion order
RECURSIVE flush_simple(_, _)
flush_simple(pending, output) ==
  IF pending = <<>> THEN output
  ELSE LET e == Head(pending)
           unique_leaves == Unique(e.leaves)
       IN flush_simple(Tail(pending),
            IF unique_leaves = <<>> THEN output
            ELSE Append(output, FlushLine(e.key[1], e.key[2], unique_leaves)))

\* the depth-aware comma split of the inside of a braced remainder
RECURSIVE SplitTop(_, _, _, _, _)
SplitTop(inner, i, depth, cur, parts) ==
  LET AddPart(p) == IF strip(p) # <<>> THEN Append(parts, strip(p)) ELSE parts
  IN IF i > Len(inner) THEN AddPart(cur)
     ELSE IF inner[i] = "{" THEN SplitTop(inner, i + 1, depth + 1, Append(cur, "{"), parts)
     ELSE IF inner[i] = "}" THEN SplitTop(inner, i + 1, depth - 1, Append(cur, "}"), parts)
     ELSE IF inner[i] = "," /\ depth = 0 THEN SplitTop(inner, i + 1, depth, <<>>, AddPart(cur))
     ELSE SplitTop(inner, i + 1, depth, Append(cur, inner[i]), parts)

normalize_remainder_items(remainder0) ==
  LET remainder == strip(remainder0)
  IN IF Len(remainder) >= 2 /\ Head(remainder) = "{" /\ remainder[Len(remainder)] = "}"
     THEN SplitTop(SubSeq(remainder, 2, Len(remainder) - 1), 1, 0, <<>>, <<>>)
     ELSE IF remainder = <<>> THEN <<>>
     ELSE <<remainder>>

\* stmt.merge_base and stmt.merge_remainder is not None and not stmt.has_attrs
Mergeable(stmt) ==
  ~Falsy(stmt.merge_base) /\ stmt.merge_remainder # None /\ ~stmt.has_attrs

\* pending[key].extend(items), creating the bucket at the end when key is new
Extend(pending, key, items) ==
  IF \E i \in 1..Len(pending) : pending[i].key = key
  THEN [i \in 1..Len(pending) |->
          IF pending[i].key = key
          THEN [key |-> key, leaves |-> pending[i].leaves \o items]
          ELSE pending[i]]
  ELSE Append(pending, [key |-> key, leaves |-> items])

\* a fallback that forgets to emit the statement
Fallback_NoEmit(pending, output, stmt) ==
  [pending |-> <<>>, output |-> flush_simple(pending, output)]

\* a fallback that forgets to flush the pending buckets
Fallback_NoFlush(pending, output, stmt) ==
  [pending |-> pending, output |-> output \o stmt.lines]

\* the fallback of render_group: flush_simple(pending, output), which clears
\* pending, then output.extend(stmt.lines)
Fallback(pending, output, stmt) ==
  [pending |-> <<>>, output |-> flush_simple(pending, output) \o stmt.lines]

\* the loop of render_group from statement i on, and the final flush
RECURSIVE RenderFrom(_, _, _, _)
RenderFrom(statements, i, pending, output) ==
  IF i > Len(statements) THEN flush_simple(pending, output)
  ELSE LET stmt == statements[i]
       IN IF Mergeable(stmt)
          THEN RenderFrom(statements, i + 1,
                 Extend(pending, <<stmt.is_pub, stmt.merge_base>>,
                        normalize_remainder_items(stmt.merge_remainder)),
                 output)
          ELSE LET f == Fallback(pending, output, stmt)
               IN RenderFrom(statements, i + 1, f.pending, f.output)

render_group(statements) ==
  IF statements = <<>> THEN <<>> ELSE RenderFrom(statements, 1, <<>>, <<>>)

\* grouped[g]
OfGroup(use_statements, g) ==
  SelectIdx(use_statements,
            {i \in 1..Len(use_statements) : use_statements[i].group = g}, 1)

\* rendered and rendered[-1].strip()
EndsNonBlank(buf) == buf # <<>> /\ strip(buf[Len(buf)]) # <<>>

\* one iteration of `for group in (1, 2, 3)`
AddBlock(rendered, block) ==
  IF block = <<>> THEN rendered
  ELSE (IF EndsNonBlank(rendered) THEN Append(rendered, <<"\n">>) ELSE rendered) \o block

\* the blank line that closes the rendered section
CloseSection(rendered) ==
  IF EndsNonBlank(rendered) THEN Append(rendered, <<"\n">>) ELSE rendered

\* a section that renders the groups in the order 3, 2, 1
render_use_section_Reversed(use_statements) ==
  CloseSection(
    AddBlock(AddBlock(AddBlock(<<>>, render_group(OfGroup(use_statements, 3))),
                      render_group(OfGroup(use_statements, 2))),
             render_group(OfGroup(use_statements, 1))))

render_use_section(use_statements) ==
  CloseSection(
    AddBlock(AddBlock(AddBlock(<<>>, render_group(OfGroup(use_statements, 1))),
                      render_group(OfGroup(use_statements, 2))),
             render_group(OfGroup(use_statements, 3))))

-----------------------------------------------------------------------------
(* File reorganizer *)

append_blank_line(buf) ==
  IF buf = <<>> THEN buf
  ELSE IF strip(buf[Len(buf)]) # <<>> THEN Append(buf, <<"\n">>)
  ELSE buf

\* a first loop that takes a line of ordinary code for a line of the prefix
RECURSIVE PrefixEnd_SkipsCode(_, _)
PrefixEnd_SkipsCode(lines, idx) ==
  IF idx > Len(lines) THEN idx
  ELSE LET line == lines[idx]
       IN IF ATTR_RE(line) THEN idx
          ELSE IF USE_RE(line) \/ MOD_RE(line) THEN idx
          ELSE PrefixEnd_SkipsCode(lines, idx + 1)

\* the first loop of process_file: the index at which it stops (a `break`,
\* or the end of the lines), 0 for its `return None`
RECURSIVE PrefixEnd(_, _)
PrefixEnd(lines, idx) ==
  IF idx > Len(lines) THEN idx
  ELSE LET line == lines[idx]
       IN IF strip(line) = <<>> \/ COMMENT_RE(line) \/ BLOCK_COMMENT_START_RE(line)
          THEN PrefixEnd(lines, idx + 1)
          ELSE IF Head(line) = "#!" THEN PrefixEnd(lines, idx + 1)
          ELSE IF ATTR_RE(line) THEN idx
          ELSE IF USE_RE(line) \/ MOD_RE(line) THEN idx
          ELSE 0

\* while cur < len(lines) and lines[cur].strip() == "": cur += 1
RECURSIVE SkipBlank(_, _)
SkipBlank(lines, cur) ==
  IF cur <= Len(lines) /\ strip(lines[cur]) = <<>> THEN SkipBlank(lines, cur + 1)
  ELSE cur

\* the second loop of process_file: the statements collected from cur on and
\* the index of the first line of the suffix
RECURSIVE CollectFrom(_, _, _, _)

\* one iteration of that loop, c being what collect_statement returned
CollectStep(lines, cur, statements, workspace_crates, c) ==
  IF ~c.found THEN [statements |-> statements, cur |-> cur]
  ELSE CollectFrom(lines, SkipBlank(lines, c.next), Append(statements, c.stmt),
                   workspace_crates)

CollectFrom(lines, cur, statements, workspace_crates) ==
  IF cur > Len(lines) THEN [statements |-> statements, cur |-> cur]
  ELSE CollectStep(lines, cur, statements, workspace_crates,
                   collect_statement(lines, cur, workspace_crates))

\* prefix = lines[:idx], the statements, suffix = lines[cur:]
SectionsAt(lines, idx, run) ==
  [found |-> TRUE,
   prefix |-> SubSeq(lines, 1, idx - 1),
   statements |-> run.statements,
   suffix |-> SubSeq(lines, run.cur, Len(lines))]

\* the decomposition of a file: found is FALSE when the first loop returns None
Sections(txt, workspace_crates) ==
  LET lines == splitlines(txt)
      idx == PrefixEnd(lines, 1)
  IN IF idx = 0
     THEN [found |-> FALSE, prefix |-> <<>>, statements |-> <<>>, suffix |-> <<>>]
     ELSE SectionsAt(lines, idx, CollectFrom(lines, idx, <<>>, workspace_crates))

OfKind(statements, kind) ==
  SelectIdx(statements, {i \in 1..Len(statements) : statements[i].kind = kind}, 1)

UseStmts(statements) ==
  LET u == OfKind(statements, "use") IN [i \in 1..Len(u) |-> u[i].use_stmt]

\* the lines of the "mod" statements, in order
ModLines(statements) ==
  LET m == OfKind(statements, "mod") IN concat([i \in 1..Len(m) |-> m[i].lines])

\* new_lines[-1] += "\n" when the last line does not end with a newline
EndWithNewline(new_lines) ==
  LET n == Len(new_lines)
      last == new_lines[n]
  IN IF n > 0 /\ (last = <<>> \/ last[Len(last)] # "\n")
     THEN [new_lines EXCEPT ![n] = Append(last, "\n")]
     ELSE new_lines

\* the statements that are no imports, in order: what the other-files
\* branch writes before the import section
Others(statements) ==
  SelectIdx(statements, {i \in 1..Len(statements) : statements[i].kind # "use"}, 1)

\* the module-root branch and the other-files branch of process_file
Assemble(require_mod_first, prefix, statements, use_section, suffix) ==
  LET mods == ModLines(statements)
      others == Others(statements)
      other_lines == concat([i \in 1..Len(others) |-> others[i].lines])
  IN IF require_mod_first
     THEN (IF OfKind(statements, "mod") # <<>> /\ use_section # <<>>
           THEN append_blank_line(prefix \o mods) ELSE prefix \o mods)
            \o use_section \o suffix
     ELSE (IF others # <<>> /\ use_section # <<>>
           THEN append_blank_line(prefix \o other_lines) ELSE prefix \o other_lines)
            \o use_section \o suffix

MOD_FIRST_NAMES == {"mod.rs", "lib.rs", "main.rs"}

\* process_file after its two loops, sec being the decomposition of the file
Reorganize(name, txt, sec) ==
  LET use_statements == UseStmts(sec.statements)
      use_section == render_use_section(use_statements)
      new_text == concat(EndWithNewline(
                    Assemble(name \in MOD_FIRST_NAMES, sec.prefix, sec.statements,
                             use_section, sec.suffix)))
  IN IF ~sec.found THEN None
     ELSE IF sec.statements = <<>> THEN None
     ELSE IF use_statements = <<>> THEN None
     ELSE IF use_section = <<>> THEN None
     ELSE IF new_text # txt THEN new_text
     ELSE None

\* the new text, or None when the file is to be left alone
process_file(name, txt, workspace_crates) ==
  Reorganize(name, txt, Sections(txt, workspace_crates))

-----------------------------------------------------------------------------
(* Source files given to the script *)

MaxChunks == 3

Path2(a, b) == <<a, "::", b>>

UseLine(path) == <<"use", " ">> \o path \o <<";", "\n">>

AttrLine == <<"#[", "x", "]", "\n">>

\* one- and two-line chunks about merging: two leaves of one base, an
\* attributed statement, a re-export, a braced list, a second base, a
\* single-segment path and a wildcard
MergeChunks ==
  {UseLine(Path2("std", "a")),
   UseLine(<<"std", "::", "b", "::", "d">>),
   AttrLine \o UseLine(Path2("core", "q")),
   <<"pub", " ">> \o UseLine(Path2("std", "a")),
   UseLine(<<"std", "::", "{", "a", ",", " ", "c", "}">>),
   UseLine(Path2("core", "q")),
   UseLine(<<"core">>),
   UseLine(Path2("std", "*"))}

\* one-line chunks about the layout of the leading block
LayoutChunks ==
  {UseLine(Path2("std", "a")),
   UseLine(Path2("foo", "x")),
   UseLine(Path2("alpha", "z")),
   UseLine(Path2("crate", "y")),
   <<"mod", " ", "m", ";", "\n">>,
   <<"fn", " ", "f", "\n">>,
   <<"\n">>,
   AttrLine,
   <<"//", " ", "c", "\n">>}

\* one-line chunks about statement boundaries and odd paths: a statement
\* without its semicolon, the three lines of a statement written over several
\* lines, and a renamed crate root
BoundaryChunks ==
  {<<"use", " ", "std", "::", "a", "\n">>,
   <<"use", " ", "std", "::", "{", "\n">>,
   <<" ", "a", ",", "\n">>,
   <<"}", ";", "\n">>,
   UseLine(Path2("foo", "x")),
   UseLine(<<"crate", " ", "as", " ", "k">>),
   <<"fn", " ", "f", "\n">>}

\* the sequences of one to n different elements of S
SeqsUpTo(S, n) ==
  UNION {{f \in [1..k -> S] : \A i, j \in 1..k : i # j => f[i] # f[j]} : k \in 1..n}

\* a file with or without the newline at its end
Texts(chunks) ==
  LET full == {concat(cs) : cs \in SeqsUpTo(chunks, MaxChunks)}
  IN full \cup {SubSeq(t, 1, Len(t) - 1) : t \in {u \in full : Len(u) > 1}}

Files == Texts(MergeChunks) \cup Texts(LayoutChunks) \cup Texts(BoundaryChunks)

FileNames == {"mod.rs", "foo.rs"}

CrateSets == {{}, {"alpha", "core"}}

-----------------------------------------------------------------------------
(* The walker's loop body on the file, main() lines 514-517 *)

\* no exit status yet
Running == -1

\* the variables of a run while no run is under way
RunOff ==
  /\ cwd = <<>>
  /\ manifests = <<>>
  /\ files = <<>>
  /\ orig = <<>>
  /\ walk = <<>>
  /\ todo = {}
  /\ changed = <<>>
  /\ stdout = <<>>
  /\ cargo = "absent"
  /\ pc = "off"
  /\ status = Running

\* no exit code yet
NoCode == -1

\* the variables of the watchdog while no watchdog runs
WatchdogOff ==
  /\ inactivity_limit = 0
  /\ notify_interval = 0
  /\ wpc = "off"
  /\ ready_fds = FALSE
  /\ age_output = 0
  /\ age_notify = 0
  /\ select_wait = 0
  /\ exit_code = NoCode
  /\ console = <<>>
  /\ log_file = <<>>
  /\ child = "none"
  /\ child_out = "closed"
  /\ child_rc = NoCode
  /\ pipe = <<>>
  /\ produced = <<>>
  /\ silent = 0

\* the variables of the line loops while they are not followed
LoopsOff ==
  /\ src = <<>>
  /\ loop = "off"
  /\ at = 0
  /\ scan = 0
  /\ balance = 0
  /\ collected = <<>>

Init ==
  /\ fname \in FileNames
  /\ text \in Files
  /\ crates \in CrateSets
  /\ prev = text
  /\ ret = None
  /\ ran = FALSE
  /\ RunOff
  /\ WatchdogOff
  /\ LoopsOff

\* new_text is not None: path.write_text(new_text)
Rewrite ==
  LET new_text == process_file(fname, text, crates)
  IN /\ new_text # None
     /\ text' = new_text
     /\ prev' = text
     /\ ret' = new_text
     /\ ran' = TRUE
     /\ UNCHANGED <<fname, crates, notFile>>

\* new_text is None: the file is not written
Skip ==
  /\ process_file(fname, text, crates) = None
  /\ prev' = text
  /\ ret' = None
  /\ ran' = TRUE
  /\ UNCHANGED <<fname, text, crates, notFile>>

Next == Rewrite \/ Skip

Spec == Init /\ [][Next]_vars

-----------------------------------------------------------------------------
(* What the properties below observe *)

\* the statements and the import statements the segmenter finds in a text
StmtsOf(txt) == Sections(txt, crates).statements

UsesOf(txt) == UseStmts(StmtsOf(txt))

\* a text without its blanks and line ends
NoWs(s) == SelectIdx(s, {i \in 1..Len(s) : s[i] \notin WS}, 1)

\* brace depth in front of position i
DepthAt(s, i) ==
  Cardinality({k \in 1..(i - 1) : s[k] = "{"}) - Cardinality({k \in 1..(i - 1) : s[k] = "}"})

\* the positions that delimit the comma-separated items of s at depth 0
Cuts(s) == {0, Len(s) + 1} \cup {i \in 1..Len(s) : s[i] = "," /\ DepthAt(s, i) = 0}

NextCut(s, a) == CHOOSE b \in Cuts(s) : b > a /\ \A c \in Cuts(s) : c > a => b <= c

\* the comma-separated items of s at depth 0, in order, empty ones included
RECURSIVE ItemsFrom(_, _)
ItemsFrom(s, a) ==
  LET b == NextCut(s, a)
  IN <<SubSeq(s, a + 1, b - 1)>> \o (IF b = Len(s) + 1 THEN <<>> ELSE ItemsFrom(s, b))

\* the position of the brace that closes the one at position i, 0 if none
Closing(s, i) ==
  LET c == {j \in (i + 1)..Len(s) : s[j] = "}" /\ DepthAt(s, j + 1) = DepthAt(s, i)}
  IN IF c = {} THEN 0 ELSE CHOOSE j \in c : \A k \in c : j <= k

\* the full paths a use tree names: `a::{b, c::d}` names a::b and a::c::d
RECURSIVE Expand(_)
Expand(p) ==
  LET i == FirstIn(p, {"{"})
      j == Closing(p, i)
      items == ItemsFrom(SubSeq(p, i + 1, j - 1), 0)
  IN IF i = 0 \/ j = 0 THEN {p}
     ELSE UNION {Expand(SubSeq(p, 1, i - 1) \o items[k]) :
                   k \in {n \in 1..Len(items) : items[n] # <<>>}}

\* the path targets an import statement names
TargetsOf(u) == IF Falsy(u.path) THEN {} ELSE Expand(NoWs(u.path))

TargetSet(uses) == UNION {TargetsOf(uses[i]) : i \in 1..Len(uses)}

\* an import statement that is one well-formed declaration: its path has
\* balanced braces and holds no keyword of a second statement
WellFormedUse(u) ==
  /\ ~Falsy(u.path)
  /\ count(u.path, "{") = count(u.path, "}")
  /\ \A i \in 1..Len(u.path) : DepthAt(u.path, i + 1) >= 0
  /\ \A i \in 1..Len(u.path) : u.path[i] \notin {"use", "mod", "fn", "pub", "#["}

WellFormedBlock(txt) ==
  LET uses == UsesOf(txt) IN \A i \in 1..Len(uses) : WellFormedUse(uses[i])

-----------------------------------------------------------------------------
(* Properties *)

\* C1: process_file is idempotent: when it returned a new text for a file
\* (here one whose import statements are well formed), a second call on the
\* file holding that text returns None.
C1_Idempotent ==
  (ran /\ ret # None /\ WellFormedBlock(prev)) => process_file(fname, text, crates) = None

\* C2: the set of distinct path targets named by the import statements of
\* the leading block is the same before and after the rewrite; a path of a
\* single segment is kept as well.
C2_TargetsPreserved ==
  (ran /\ WellFormedBlock(prev)) => TargetSet(UsesOf(text)) = TargetSet(UsesOf(prev))

\* s occurs in t as a contiguous run of lexemes
IsInfix(s, t) == \E i \in 0..(Len(t) - Len(s)) : SubSeq(t, i + 1, i + Len(s)) = s

\* the segments of a path
Segments(u) == splitAll(strip(u.path))

\* merge eligibility as the data model states it: no attribute, no wildcard,
\* no renaming clause, at least two segments, no empty last segment
ClaimEligible(u) ==
  /\ ~u.has_attrs
  /\ ~Falsy(u.path)
  /\ count(u.path, "*") = 0
  /\ ~HasAs(u.path)
  /\ Len(Segments(u)) >= 2
  /\ strip(Segments(u)[Len(Segments(u))]) # <<>>

\* the statement carries a merge key
HasMergeKey(u) == ~Falsy(u.merge_base)

\* the lines of the statement stand unchanged in the file
Verbatim(u) == IsInfix(concat(u.lines), text)

HasAttrLine(lines) == \E i \in 1..Len(lines) : lstrip(lines[i]) # <<>> /\ Head(lstrip(lines[i])) = "#["

\* C3 as stated: a statement that has an attribute, a wildcard, a renaming
\* clause or fewer than two segments carries no merge key and is emitted
\* verbatim.
C3_EligibleOnlyIfSimple ==
  ran => LET uses == UsesOf(prev)
         IN \A i \in 1..Len(uses) :
              ~ClaimEligible(uses[i]) => (~HasMergeKey(uses[i]) /\ Verbatim(uses[i]))

\* C3 as amended: a statement carries a merge key exactly when it has no
\* attribute line and a non-empty path, whatever the shape of the path; a
\* statement without a merge key is emitted verbatim.
C3_MergeKeyRule ==
  ran => LET uses == UsesOf(prev)
         IN \A i \in 1..Len(uses) :
              /\ HasMergeKey(uses[i])
                    <=> (~HasAttrLine(uses[i].lines) /\ ~Falsy(uses[i].path))
              /\ ~HasMergeKey(uses[i]) => Verbatim(uses[i])

\* a rewrite of a block that holds an attributed statement, a statement
\* without a path and a wildcard statement with a merge key
C3_Witness ==
  /\ ran
  /\ ret # None
  /\ \E i \in 1..Len(UsesOf(prev)) :
        UsesOf(prev)[i].has_attrs /\ ~HasMergeKey(UsesOf(prev)[i])
  /\ \E i \in 1..Len(UsesOf(prev)) :
        count(UsesOf(prev)[i].path, "*") > 0 /\ HasMergeKey(UsesOf(prev)[i])

\* the base (first segment) and the leaf tokens of a statement's path, read
\* off the path: the remainder after the first `::`, or the items of the
\* braced list when the remainder is one
BaseOf(u) == strip(Segments(u)[1])

KeyOf(u) == <<u.is_pub, BaseOf(u)>>

NonEmpty(items) ==
  SelectIdx([k \in 1..Len(items) |-> strip(items[k])],
            {k \in 1..Len(items) : strip(items[k]) # <<>>}, 1)

LeavesOf(u) ==
  LET p == strip(u.path)
      n == FirstIn(p, {"::"})
      r == strip(SubSeq(p, n + 1, Len(p)))
  IN IF n = 0 \/ r = <<>> THEN <<>>
     ELSE IF Len(r) >= 2 /\ r[1] = "{" /\ Closing(r, 1) = Len(r)
     THEN NonEmpty(ItemsFrom(SubSeq(r, 2, Len(r) - 1), 0))
     ELSE <<r>>

Range(f) == {f[i] : i \in DOMAIN f}

\* the unattributed statements of uses, at the positions idx, that have key
WithKey(uses, idx, key) ==
  {i \in idx : ~uses[i].has_attrs /\ ~Falsy(uses[i].path) /\ KeyOf(uses[i]) = key}

\* the leaves those statements list
LeafSet(uses, idx, key) ==
  UNION {Range(LeavesOf(uses[i])) : i \in WithKey(uses, idx, key)}

\* i < k < j, statements i and j merge-eligible with one key, statement k
\* attributed and of another base
Interrupted(uses, i, k, j) ==
  /\ i < k /\ k < j
  /\ ClaimEligible(uses[i]) /\ ClaimEligible(uses[j])
  /\ KeyOf(uses[i]) = KeyOf(uses[j])
  /\ uses[k].has_attrs /\ ~Falsy(uses[k].path)
  /\ BaseOf(uses[k]) # BaseOf(uses[i])

\* the output has at least two statements for the key, and each lists only
\* leaves seen before statement k or only leaves seen after it
SplitAt(in, out, k, key) ==
  LET stmts == WithKey(out, 1..Len(out), key)
  IN /\ Cardinality(stmts) >= 2
     /\ \A o \in stmts :
          \/ Range(LeavesOf(out[o])) \subseteq LeafSet(in, 1..(k - 1), key)
          \/ Range(LeavesOf(out[o])) \subseteq LeafSet(in, (k + 1)..Len(in), key)
     /\ \E o \in stmts : Range(LeavesOf(out[o])) \subseteq LeafSet(in, 1..(k - 1), key)
     /\ \E o \in stmts : Range(LeavesOf(out[o])) \subseteq LeafSet(in, (k + 1)..Len(in), key)

\* C4 as stated: two merge-eligible statements of one base separated by an
\* attributed statement of an unrelated base come out as two statements, each
\* with the leaves of its side only.
C4_FlushOnInterruption ==
  ran => LET in == UsesOf(prev)
             out == UsesOf(text)
         IN \A i, k, j \in 1..Len(in) :
              Interrupted(in, i, k, j) => SplitAt(in, out, k, KeyOf(in[i]))

\* C4 as amended: the same, when the separating statement belongs to the
\* provenance group of the two statements.
C4_FlushWithinGroup ==
  ran => LET in == UsesOf(prev)
             out == UsesOf(text)
         IN \A i, k, j \in 1..Len(in) :
              (Interrupted(in, i, k, j) /\ in[k].group = in[i].group)
                 => SplitAt(in, out, k, KeyOf(in[i]))

\* a rewrite of a block in which an attributed statement of the same group
\* separates two statements of one base with different leaves
C4_Witness ==
  /\ ran
  /\ ret # None
  /\ \E i, k, j \in 1..Len(UsesOf(prev)) :
        /\ Interrupted(UsesOf(prev), i, k, j)
        /\ UsesOf(prev)[k].group = UsesOf(prev)[i].group
        /\ LeavesOf(UsesOf(prev)[i]) # LeavesOf(UsesOf(prev)[j])

\* the import statements of a provenance group, read and written
GroupIn(g) == OfGroup(UsesOf(prev), g)

GroupOut(g) == OfGroup(UsesOf(text), g)

\* a statement render_group may combine with others: no attribute, a path
CanMerge(u) == ~u.has_attrs /\ ~Falsy(u.path)

\* the number of statements that cannot be merged in front of position i:
\* the index of the run of mergeable statements position i lies in
RunOf(uses, i) == Cardinality({k \in 1..(i - 1) : ~CanMerge(uses[k])})

\* the mergeable statements of run r that have the key
RunMembers(uses, r, key) ==
  {i \in 1..Len(uses) : CanMerge(uses[i]) /\ RunOf(uses, i) = r /\ KeyOf(uses[i]) = key}

\* their leaves in source order, each once
RunLeaves(uses, r, key) ==
  LET m == SelectIdx(uses, RunMembers(uses, r, key), 1)
  IN Unique(concat([i \in 1..Len(m) |-> LeavesOf(m[i])]))

\* `use base::leaf;` for one leaf, `use base::{l1, l2};` for several
ExpectedStmt(key, leaves) ==
  (IF key[1] THEN <<"pub", " ">> ELSE <<>>) \o <<"use", " ">> \o key[2] \o <<"::">>
    \o (IF Len(leaves) = 1 THEN leaves[1]
        ELSE <<"{">> \o join(<<",", " ">>, leaves) \o <<"}">>)
    \o <<";", "\n">>

GroupsOf(txt) == LET uses == UsesOf(txt) IN [i \in 1..Len(uses) |-> uses[i].group]

\* C6: in a rewritten file the import statements stand in group order:
\* no statement of a group follows a statement of a higher group.
C6_GroupFencing ==
  (ran /\ ret # None) =>
     LET groups == GroupsOf(text)
     IN \A i, j \in 1..Len(groups) : i < j => groups[i] <= groups[j]

\* a rewrite of a block that had a group-3 statement in front of a group-1
\* statement and a group-2 statement
C6_Witness ==
  /\ ran
  /\ ret # None
  /\ \E i, j \in 1..Len(GroupsOf(prev)) :
        i < j /\ GroupsOf(prev)[i] = 3 /\ GroupsOf(prev)[j] = 1
  /\ Range(GroupsOf(text)) = {1, 2, 3}

\* the first position in uses of an unattributed statement with the key, 0 if none
FirstOf(uses, key) ==
  LET c == WithKey(uses, 1..Len(uses), key)
  IN IF c = {} THEN 0 ELSE CHOOSE i \in c : \A k \in c : i <= k

\* the first position in uses of a merge-eligible statement with the key
FirstEligible(uses, key) ==
  LET c == {i \in 1..Len(uses) : ClaimEligible(uses[i]) /\ KeyOf(uses[i]) = key}
  IN IF c = {} THEN 0 ELSE CHOOSE i \in c : \A k \in c : i <= k

EligibleKeys(uses) == {KeyOf(uses[i]) : i \in {k \in 1..Len(uses) : ClaimEligible(uses[k])}}

\* C7: within a provenance group, when merge key K1 first appears in the
\* source before merge key K2, the first rendered statement for K1 stands
\* before the first rendered statement for K2.
C7_OrderingStability ==
  (ran /\ WellFormedBlock(prev)) =>
     \A g \in 1..3 :
        \A k1, k2 \in EligibleKeys(GroupIn(g)) :
           (/\ FirstEligible(GroupIn(g), k1) < FirstEligible(GroupIn(g), k2)
            /\ FirstOf(GroupOut(g), k1) > 0
            /\ FirstOf(GroupOut(g), k2) > 0)
              => FirstOf(GroupOut(g), k1) < FirstOf(GroupOut(g), k2)

\* a line of the leading prefix: blank, a line comment, the opening of a
\* block comment, or a shebang line
IsPrefixLine(line) ==
  \/ \A i \in 1..Len(line) : line[i] \in WS
  \/ \E i \in 1..Len(line) :
        /\ line[i] \in {"//", "/*"}
        /\ \A k \in 1..(i - 1) : line[k] \in WS
  \/ line[1] = "#!"

\* a line that opens an attribute, an import or a submodule declaration
IsOpener(line) ==
  LET w == NoWs(line)
  IN /\ w # <<>>
     /\ \/ w[1] \in {"#[", "use", "mod"}
        \/ Len(w) >= 2 /\ w[1] = "pub" /\ w[2] \in {"use", "mod"}

\* the first line after the prefix is ordinary code
StartsWithCode(txt) ==
  LET lines == splitlines(txt)
  IN \E i \in 1..Len(lines) :
        /\ \A k \in 1..(i - 1) : IsPrefixLine(lines[k])
        /\ ~IsPrefixLine(lines[i])
        /\ ~IsOpener(lines[i])

\* C8: a file is left alone when the first line after its prefix is ordinary
\* code, when no statement is collected, and when no import statement is
\* among the collected statements.
C8_NotApplicableUntouched ==
  (/\ ran
   /\ LET stmts == StmtsOf(prev)
      IN \/ StartsWithCode(prev)
         \/ stmts = <<>>
         \/ OfKind(stmts, "use") = <<>>)
     => (ret = None /\ text = prev)

\* process_file has run on a file whose first line after the prefix is code
\* and which holds two import statements further down
C8_Witness ==
  /\ ran
  /\ splitlines(prev)[1][1] = "fn"
  /\ StartsWithCode(prev)
  /\ Cardinality({i \in 1..Len(splitlines(prev)) : USE_RE(splitlines(prev)[i])}) >= 2
  /\ ret = None

\* a line with its line end
WithNewline(line) == IF line[Len(line)] = "\n" THEN line ELSE Append(line, "\n")

\* the block mixes the two kinds: a submodule declaration after an import
Interleaved(stmts) ==
  \E i, j \in 1..Len(stmts) : i < j /\ stmts[i].kind = "use" /\ stmts[j].kind = "mod"

\* C9: in a rewritten mod.rs, lib.rs or main.rs whose leading block
\* interleaves submodule declarations with imports, the prefix is followed by
\* every submodule declaration of the block in source order, then by one
\* blank line, then by the import section.
C9_ModsFirst ==
  (/\ ran
   /\ ret # None
   /\ fname \in {"mod.rs", "lib.rs", "main.rs"}
   /\ WellFormedBlock(prev)
   /\ Interleaved(StmtsOf(prev)))
     => LET sec == Sections(prev, crates)
            mods == ModLines(sec.statements)
            head == sec.prefix \o [i \in 1..Len(mods) |-> WithNewline(mods[i])]
            out == splitlines(text)
            n == Len(head)
        IN /\ Len(out) >= n + 2
           /\ SubSeq(out, 1, n) = head
           /\ out[n + 1] = <<"\n">>
           /\ USE_RE(out[n + 2]) \/ ATTR_RE(out[n + 2])
           /\ \A i \in (n + 2)..Len(out) : ~MOD_RE(out[i]) \/ i > Len(out) - Len(sec.suffix)

\* the leading segment of a path: what stands in front of its first `::`
LeadSegment(path) == strip(splitAll(strip(path))[1])

\* the leading identifier of a path
LeadWord(path) == IF IsWord(strip(path)[1]) THEN <<strip(path)[1]>> ELSE <<>>

Named(word, names) == \E c \in names : word = <<c>>

\* C10 as stated: group 3 when the path begins with crate::, self:: or
\* super:: or its leading segment is an internal package; otherwise group 1
\* when the leading segment is on the allow-list; otherwise group 2; group 2
\* without a path.
C10_ClassifyAsStated ==
  ran => LET uses == UsesOf(prev)
         IN \A i \in 1..Len(uses) :
           LET u == uses[i]
           IN u.group =
                IF Falsy(u.path) THEN 2
                ELSE IF \/ \E m \in {"crate", "self", "super"} : startswith(strip(u.path), <<m, "::">>)
                        \/ Named(LeadSegment(u.path), crates)
                     THEN 3
                ELSE IF Named(LeadSegment(u.path), GROUP1_CRATES) THEN 1
                ELSE 2

\* C10 as amended: group 3 when the leading identifier of the path is crate,
\* self or super, followed by `::` or not, or is an internal package;
\* otherwise group 1 when it is on the allow-list; otherwise group 2; group 2
\* without a path.
C10_Classify ==
  ran => LET uses == UsesOf(prev)
         IN \A i \in 1..Len(uses) :
           LET u == uses[i]
           IN u.group =
                IF Falsy(u.path) THEN 2
                ELSE IF \/ Named(LeadWord(u.path), {"crate", "self", "super"})
                        \/ Named(LeadWord(u.path), crates)
                     THEN 3
                ELSE IF Named(LeadWord(u.path), GROUP1_CRATES) THEN 1
                ELSE 2

\* a block with an import of an internal package whose name is on the
\* allow-list as well, classified into group 3, next to a group-1 import
C10_Witness ==
  /\ ran
  /\ \E i \in 1..Len(UsesOf(prev)) :
        /\ Named(LeadWord(UsesOf(prev)[i].path), crates \cap GROUP1_CRATES)
        /\ UsesOf(prev)[i].group = 3
  /\ \E i \in 1..Len(UsesOf(prev)) : UsesOf(prev)[i].group = 1

\* a text with its last line ended
Terminated(txt) ==
  IF txt # <<>> /\ txt[Len(txt)] # "\n" THEN Append(txt, "\n") ELSE txt

\* the lines of a group as rendered, followed by one blank line; nothing for
\* a group that renders no line
GroupThenBlank(uses, g) ==
  IF render_group(OfGroup(uses, g)) = <<>> THEN <<>>
  ELSE Terminated(concat(render_group(OfGroup(uses, g)))) \o <<"\n">>

\* C15: the rendered import section of a block of well-formed imports is
\* the lines of its non-empty groups, in order, each followed by exactly one
\* blank line: one blank line between two consecutive non-empty groups, one
\* after the last, none for an empty group.
C15_BlankLineSeparators ==
  LET uses == UsesOf(text)
  IN (uses # <<>> /\ WellFormedBlock(text)) =>
       concat(render_use_section(uses))
         = GroupThenBlank(uses, 1) \o GroupThenBlank(uses, 2) \o GroupThenBlank(uses, 3)

\* a name of each kind: the three module roots and another file
SomeNames == MOD_FIRST_NAMES \cup {"foo.rs"}

\* process_file returns the same for the text under every name
SameUnderEveryName ==
  \A name \in SomeNames :
     process_file(name, text, crates) = process_file(fname, text, crates)

\* the prefix, every submodule statement of the block, one blank line if
\* there is any, the rendered import section, the suffix
ModsBlankImports(sec) ==
  LET mods == ModLines(sec.statements)
      head == concat(sec.prefix \o mods)
  IN Terminated((IF mods # <<>> THEN Terminated(head) \o <<"\n">> ELSE head)
                  \o concat(render_use_section(UseStmts(sec.statements)))
                  \o concat(sec.suffix))

\* C21: process_file returns the same result for a content whether or not
\* the file is named mod.rs, lib.rs or main.rs, and under either name a
\* rewritten file (here one whose imports are well formed) is its prefix,
\* then every submodule statement of the leading block, then one blank line
\* if any was written, then the rendered import section, then its suffix.
C21_FilenameIndependent ==
  /\ SameUnderEveryName
  /\ (ran /\ ret # None /\ WellFormedBlock(prev)) =>
        text = ModsBlankImports(Sections(prev, crates))

-----------------------------------------------------------------------------
(* The package registry: load_workspace_crates *)

\* What tomllib.load returns is a table; the values met under the key
\* "package" are modelled with their Python type: no such key, a table (with
\* or without the key "name", with or without other keys), a string (a
\* sequence of lexemes), an integer, a boolean, a list of strings.
NoValue == [type |-> "none"]

StrValue(s) == [type |-> "str", v |-> s]

IntValue(n) == [type |-> "int", v |-> n]

BoolValue(b) == [type |-> "bool", v |-> b]

ListValue(items) == [type |-> "list", v |-> items]

TableValue(name, others) == [type |-> "table", name |-> name, others |-> others]

\* bool(value)
Truthy(value) ==
  CASE value.type = "none" -> FALSE
    [] value.type = "str" -> value.v # <<>>
    [] value.type = "int" -> value.v # 0
    [] value.type = "bool" -> value.v
    [] value.type = "list" -> value.v # <<>>
    [] value.type = "table" -> value.name # NoValue \/ value.others

\* `"name" in value` raises TypeError for a value that is no container
CanContain(value) == value.type \in {"str", "list", "table"}

\* "name" in value: a key of a table, an item of a list, a substring of a string
ContainsName(value) ==
  CASE value.type = "table" -> value.name # NoValue
    [] value.type = "list" -> \E i \in 1..Len(value.v) : value.v[i] = StrValue(<<"name">>)
    [] value.type = "str" -> \E i \in 1..Len(value.v) : value.v[i] = "name"

\* set.add(value) raises TypeError for an unhashable value
Hashable(value) == value.type \in {"str", "int", "bool"}

\* the element set.add(value) puts into the set: the string itself, and for
\* an integer or a boolean an element that no package name is equal to
Element(value) ==
  IF value.type = "str" /\ Len(value.v) = 1 THEN value.v[1] ELSE "<not a name>"

\* the Cargo.toml of a directory: none among the filenames, one that cannot
\* be opened, one that tomllib rejects, or the parsed table
NoManifest == [kind |-> "absent"]

UnreadableManifest == [kind |-> "unreadable"]

MalformedManifest == [kind |-> "malformed"]

Manifest(package) == [kind |-> "toml", package |-> package]

\* the body of the os.walk loop after the pruning of "target": whether an
\* exception leaves the function, and the names added to crates
LoadManifest(m) ==
  LET skip == [raised |-> FALSE, add |-> {}]
      raise == [raised |-> TRUE, add |-> {}]
  IN IF m.kind # "toml" THEN skip
     ELSE IF ~Truthy(m.package) THEN skip
     ELSE IF ~CanContain(m.package) THEN raise
     ELSE IF ~ContainsName(m.package) THEN skip
     ELSE IF m.package.type # "table" THEN raise
     ELSE IF ~Hashable(m.package.name) THEN raise
     ELSE [raised |-> FALSE, add |-> {Element(m.package.name)}]

\* the directories of the tree, as paths relative to the root
Dirs == {<<>>, <<"a">>, <<"b">>, <<"target">>, <<"a", "target">>}

\* dirnames of a directory
Subdirs(d) == {e \in Dirs : Len(e) = Len(d) + 1 /\ SubSeq(e, 1, Len(d)) = d}

\* dirnames after `if "target" in dirnames: dirnames.remove("target")`
Descended(d) == {e \in Subdirs(d) : e[Len(e)] # "target"}

\* the orders in which the entries of a directory can be listed
Orders(S) ==
  {f \in [1..Cardinality(S) -> S] : \A i, j \in 1..Cardinality(S) : i # j => f[i] # f[j]}

-----------------------------------------------------------------------------
(* The run: the __main__ block and main *)

\* the content of a path that read_text cannot return: a file that is not
\* valid UTF-8 or may not be read, or a directory whose name ends in .rs
Unreadable == <<"<unreadable>">>

\* path.parts of the absolute path of a file
Parts(path) == cwd \o path

\* path.name
NameOf(path) == path[Len(path)]

\* "target" in path.parts
InTarget(path) == \E i \in 1..Len(Parts(path)) : Parts(path)[i] = "target"

\* the variables of the single-file machine while a run is under way
FileOff ==
  /\ fname = ""
  /\ text = <<>>
  /\ prev = <<>>
  /\ ret = None
  /\ ran = FALSE

\* os.walk yields a directory: the manifest is read without an exception
\* leaving the function, and the subdirectories other than target are queued
\* in the order of the listing
LoadDir ==
  /\ pc = "load"
  /\ walk # <<>>
  /\ ~LoadManifest(manifests[Head(walk)]).raised
  /\ crates' = crates \cup LoadManifest(manifests[Head(walk)]).add
  /\ \E order \in Orders(Descended(Head(walk))) : walk' = order \o Tail(walk)
  /\ UNCHANGED <<notRun, cwd, manifests, files, orig, todo, changed, stdout,
                 cargo, pc, status>>

\* an exception leaves load_workspace_crates and the __main__ block: the
\* interpreter prints the traceback and exits with status 1
LoadRaises ==
  /\ pc = "load"
  /\ walk # <<>>
  /\ LoadManifest(manifests[Head(walk)]).raised
  /\ pc' = "exit"
  /\ status' = 1
  /\ UNCHANGED <<notRun, crates, cwd, manifests, files, orig, walk, todo,
                 changed, stdout, cargo>>

\* load_workspace_crates returns, WORKSPACE_CRATES is set and main begins:
\* rglob will yield every path that ends in .rs
LoadDone ==
  /\ pc = "load"
  /\ walk = <<>>
  /\ pc' = "walk"
  /\ todo' = DOMAIN files
  /\ UNCHANGED <<notRun, crates, cwd, manifests, files, orig, walk, changed,
                 stdout, cargo, status>>

\* if "target" in path.parts: continue
SkipTarget ==
  /\ pc = "walk"
  /\ \E path \in todo :
        /\ InTarget(path)
        /\ todo' = todo \ {path}
  /\ UNCHANGED <<notRun, crates, cwd, manifests, files, orig, walk, changed,
                 stdout, cargo, pc, status>>

\* path.read_text raises in process_file: nothing catches the exception
ReadFails ==
  /\ pc = "walk"
  /\ \E path \in todo : ~InTarget(path) /\ files[path] = Unreadable
  /\ pc' = "exit"
  /\ status' = 1
  /\ UNCHANGED <<notRun, crates, cwd, manifests, files, orig, walk, todo,
                 changed, stdout, cargo>>

\* new_text is not None: path.write_text(new_text); changed.append(str(path))
WriteFile ==
  /\ pc = "walk"
  /\ \E path \in todo :
        /\ ~InTarget(path)
        /\ files[path] # Unreadable
        /\ LET new_text == process_file(NameOf(path), files[path], crates)
           IN /\ new_text # None
              /\ files' = [files EXCEPT ![path] = new_text]
        /\ changed' = Append(changed, path)
        /\ todo' = todo \ {path}
  /\ UNCHANGED <<notRun, crates, cwd, manifests, orig, walk, stdout, cargo,
                 pc, status>>

\* new_text is None
LeaveFile ==
  /\ pc = "walk"
  /\ \E path \in todo :
        /\ ~InTarget(path)
        /\ files[path] # Unreadable
        /\ process_file(NameOf(path), files[path], crates) = None
        /\ todo' = todo \ {path}
  /\ UNCHANGED <<notRun, crates, cwd, manifests, files, orig, walk, changed,
                 stdout, cargo, pc, status>>

\* print(f"Updated {len(changed)} files") and the paths
Report ==
  /\ pc = "walk"
  /\ todo = {}
  /\ stdout' = stdout \o <<<<"Updated", Len(changed)>>>>
                      \o [i \in 1..Len(changed) |-> <<"path", changed[i]>>]
  /\ pc' = "fmt"
  /\ UNCHANGED <<notRun, crates, cwd, manifests, files, orig, walk, todo,
                 changed, cargo, status>>

\* shutil.which("cargo") finds nothing
FormatAbsent ==
  /\ pc = "fmt"
  /\ cargo' = "absent"
  /\ stdout' = Append(stdout, <<"cargo not found in PATH; skipping cargo fmt">>)
  /\ pc' = "exit"
  /\ status' = 0
  /\ UNCHANGED <<notRun, crates, cwd, manifests, files, orig, walk, todo, changed>>

\* subprocess.run(["cargo", "fmt"], check=False) returns, whatever the exit
\* code of the formatter
FormatRuns ==
  /\ pc = "fmt"
  /\ cargo' \in {"succeeds", "fails"}
  /\ pc' = "exit"
  /\ status' = 0
  /\ UNCHANGED <<notRun, crates, cwd, manifests, files, orig, walk, todo,
                 changed, stdout>>

\* shutil.which or subprocess.run raises: except Exception prints the failure
FormatRaises ==
  /\ pc = "fmt"
  /\ cargo' = "raises"
  /\ stdout' = Append(stdout, <<"Failed to run cargo fmt">>)
  /\ pc' = "exit"
  /\ status' = 0
  /\ UNCHANGED <<notRun, crates, cwd, manifests, files, orig, walk, todo, changed>>

-----------------------------------------------------------------------------
(* Trees given to the run *)

Package(name) == Manifest(TableValue(StrValue(<<name>>), TRUE))

\* the manifests a package directory can hold: a well-formed one, none, one
\* that cannot be opened, one that is not TOML, and parseable ones without a
\* package section, without a name, or with a package or a name of another
\* shape than a table and a string
ManifestShapes ==
  {Package("alpha"),
   NoManifest,
   UnreadableManifest,
   MalformedManifest,
   Manifest(NoValue),
   Manifest(TableValue(NoValue, FALSE)),
   Manifest(TableValue(NoValue, TRUE)),
   Manifest(TableValue(IntValue(5), TRUE)),
   Manifest(TableValue(ListValue(<<StrValue(<<"alpha">>)>>), TRUE)),
   Manifest(StrValue(<<"alpha">>)),
   Manifest(StrValue(<<"my-", "name">>)),
   Manifest(IntValue(5)),
   Manifest(BoolValue(FALSE)),
   Manifest(ListValue(<<StrValue(<<"name">>)>>))}

\* the manifests of the tree: root and b declare a package or hold no
\* manifest, a holds a manifest of any shape, the two target directories
\* hold the manifest of a package or none
ManifestTrees ==
  {[d \in Dirs |->
      CASE d = <<>> -> root
        [] d = <<"a">> -> a
        [] d = <<"b">> -> b
        [] OTHER -> t] :
     root \in {NoManifest, Package("core")},
     a \in ManifestShapes,
     b \in {NoManifest, Package("beta")},
     t \in {NoManifest, Package("built")}}

\* the manifests of a tree of two packages
TwoPackages ==
  [d \in Dirs |->
     IF d = <<"a">> THEN Package("alpha")
     ELSE IF d = <<"b">> THEN Package("core")
     ELSE NoManifest]

NoPackages == [d \in Dirs |-> NoManifest]

\* the places of the tree where a file whose name ends in .rs may be
Places == {<<"a", "mod.rs">>, <<"a", "foo.rs">>, <<"target", "gen.rs">>}

\* what such a file holds: imports out of group order, imports in their
\* final form, ordinary code, two imports whose order depends on the package
\* set, or something that cannot be read
Contents ==
  {UseLine(Path2("foo", "x")) \o UseLine(Path2("std", "a")),
   UseLine(Path2("std", "a")) \o <<"\n">>,
   <<"fn", " ", "f", "\n">>,
   UseLine(Path2("alpha", "z")) \o UseLine(Path2("foo", "x")),
   Unreadable}

\* the trees of .rs files: some of the places, each with one of the contents
SourceTrees == UNION {[P -> Contents] : P \in SUBSET Places}

\* the working directory of the run
WorkDirs == {<<"home", "ws">>, <<"target", "ws">>}

\* a tree is a working directory, its manifests and its .rs files: either
\* any manifests around one file, or any files in a tree of no or two packages
Trees ==
  {[cwd |-> <<"home", "ws">>, manifests |-> m,
    files |-> (<<"a", "foo.rs">> :> UseLine(Path2("alpha", "z")) \o UseLine(Path2("foo", "x")))] :
     m \in ManifestTrees}
  \cup
  {[cwd |-> w, manifests |-> m, files |-> f] :
     w \in WorkDirs, m \in {NoPackages, TwoPackages}, f \in SourceTrees}

\* the __main__ block begins: load_workspace_crates(Path.cwd())
RunInit ==
  /\ FileOff
  /\ WatchdogOff
  /\ LoopsOff
  /\ \E t \in Trees :
        /\ cwd = t.cwd
        /\ manifests = t.manifests
        /\ files = t.files
        /\ orig = t.files
  /\ crates = {}
  /\ walk = <<<<>>>>
  /\ todo = {}
  /\ changed = <<>>
  /\ stdout = <<>>
  /\ cargo = "unknown"
  /\ pc = "load"
  /\ status = Running

RunNext ==
  \/ LoadDir
  \/ LoadRaises
  \/ LoadDone
  \/ SkipTarget
  \/ ReadFails
  \/ WriteFile
  \/ LeaveFile
  \/ Report
  \/ FormatAbsent
  \/ FormatRuns
  \/ FormatRaises

Run == RunInit /\ [][RunNext]_vars

-----------------------------------------------------------------------------
(* Properties of the run *)

\* a candidate file: a .rs file of the tree outside the build-output
\* directories of the tree
Candidate(path) == \A i \in 1..Len(path) : path[i] # "target"

\* the rewrite computed for a file of the tree as the run found it, None
\* when there is none
RewriteOf(path) ==
  IF orig[path] = Unreadable THEN None
  ELSE process_file(NameOf(path), orig[path], crates)

\* what the mutation contract leaves in a file
Contracted(path) ==
  IF Candidate(path) /\ RewriteOf(path) # None THEN RewriteOf(path) ELSE orig[path]

\* C11: when the run has ended, every candidate file whose computed rewrite
\* differs from its content holds the computed text, every other file holds
\* what it held, and the tree has the files it had.
C11_MutationContract ==
  pc = "exit" =>
     /\ DOMAIN files = DOMAIN orig
     /\ \A path \in DOMAIN orig : files[path] = Contracted(path)

\* C12: whatever the tree holds, a run that has ended has ended with exit
\* status 0.
C12_AlwaysSucceeds == pc = "exit" => status = 0

\* the package names declared under a package section by the parseable
\* manifests outside the build-output directories
DeclaredNames ==
  {manifests[d].package.name.v[1] :
     d \in {e \in Dirs : /\ Candidate(e)
                         /\ manifests[e].kind = "toml"
                         /\ manifests[e].package.type = "table"
                         /\ manifests[e].package.name.type = "str"}}

\* C13: load_workspace_crates never visits a build-output directory, no
\* exception leaves it, and what it returns is the set of the declared
\* package names.
C13_RegistryRobust ==
  /\ \A i \in 1..Len(walk) : Candidate(walk[i])
  /\ ~(pc = "exit" /\ walk # <<>>)
  /\ pc # "load" => crates = DeclaredNames

RECURSIVE VisitAll(_, _, _)
\* the loop of main over the paths in the given order, from the given
\* contents: the contents of the files and the set of the files written
\* when the loop is left, by its end or by the exception of a read
VisitAll(order, contents, written) ==
  IF order = <<>> THEN [files |-> contents, changed |-> written]
  ELSE IF InTarget(Head(order)) THEN VisitAll(Tail(order), contents, written)
  ELSE IF contents[Head(order)] = Unreadable
       THEN [files |-> contents, changed |-> written]
  ELSE LET new_text == process_file(NameOf(Head(order)), contents[Head(order)], crates)
       IN IF new_text = None THEN VisitAll(Tail(order), contents, written)
          ELSE VisitAll(Tail(order), [contents EXCEPT ![Head(order)] = new_text],
                        written \cup {Head(order)})

\* C18: once the package set is loaded, the final content of every file
\* and the set of modified files are the same for every order in which the
\* walker visits the files: what the run leaves behind is what the loop
\* leaves behind in any order of the paths.
C18_OrderIndependent ==
  (pc = "exit" /\ walk = <<>>) =>
     \A order \in Orders(DOMAIN orig) :
        /\ VisitAll(order, orig, {}).files = files
        /\ VisitAll(order, orig, {}).changed = Range(changed)

(***************************************************************************)
(* The watchdog: run_with_watchdog.py.                                     *)
(*                                                                         *)
(* The command writes bytes to a pipe; the watchdog waits in select for at *)
(* most one second, reads at most ReadSize bytes, decodes them and writes  *)
(* the text to sys.stdout and to the log file.  Time is counted in whole   *)
(* seconds and passes while the watchdog waits in select; the statements   *)
(* between two calls of select take no time on that clock.  The code looks *)
(* at the clock only through now - last_output and now - last_notify, kept *)
(* here as age_output and age_notify, which stop counting at MaxIdle.      *)
(***************************************************************************)

\* the bytes the command may write in all
MaxOutput == 3

\* where the ages stop counting, above every limit and interval tried
MaxIdle == 3

\* os.read(stdout_fd, 4096), scaled to the outputs tried
ReadSize == 2

Min(a, b) == IF a <= b THEN a ELSE b

\* one write of the command: an ASCII byte, the two bytes of a two-byte
\* UTF-8 character at once, or either byte of such a character alone
Writes == {<<"61">>, <<"c3", "a9">>, <<"c3">>, <<"a9">>}

Limits == {0, 2}

Intervals == {0, 1}

\* the exit codes of a command that ends on its own
OwnCodes == {0, 1}

\* the return codes of a command ended by SIGTERM or SIGKILL
KilledCodes == {-15, -9}

RECURSIVE DecodeFrom(_, _)
\* chunk.decode("utf-8", errors="replace") from byte i on: a byte that
\* starts no complete character becomes U+FFFD
DecodeFrom(chunk, i) ==
  IF i > Len(chunk) THEN <<>>
  ELSE IF chunk[i] = "61" THEN <<"a">> \o DecodeFrom(chunk, i + 1)
  ELSE IF chunk[i] = "c3" /\ i < Len(chunk) /\ chunk[i + 1] = "a9"
       THEN <<"e-acute">> \o DecodeFrom(chunk, i + 2)
  ELSE <<"U+FFFD">> \o DecodeFrom(chunk, i + 1)

Decode(chunk) == DecodeFrom(chunk, 1)

\* the messages of the watchdog itself
StartMsg == "[watchdog] Starting"

TerminatingNote == "[watchdog] No output, terminating"

WaitingNote == "[watchdog] Waiting for output"

InterruptNote == "[watchdog] Keyboard interrupt received, terminating"

Summary == "[watchdog] Finished"

\* print(note) and log_file.write(note); of several notes of waiting in
\* a row the first one is kept
Noted(written, note) ==
  IF note = WaitingNote /\ written[Len(written)] = WaitingNote THEN written
  ELSE Append(written, note)

\* until the first select: the arguments, the start message, Popen
WatchdogInit ==
  /\ FileOff
  /\ crates = {}
  /\ RunOff
  /\ LoopsOff
  /\ inactivity_limit \in Limits
  /\ notify_interval \in Intervals
  /\ wpc = "select"
  /\ ready_fds = FALSE
  /\ age_output = 0
  /\ age_notify = 0
  /\ select_wait = 0
  /\ exit_code = NoCode
  /\ console = <<StartMsg>>
  /\ log_file = <<StartMsg>>
  /\ child = "running"
  /\ child_out = "open"
  /\ child_rc = NoCode
  /\ pipe = <<>>
  /\ produced = <<>>
  /\ silent = 0

watchdogSide ==
  <<inactivity_limit, notify_interval, wpc, ready_fds, age_output, age_notify,
    select_wait, exit_code, console, log_file>>

\* the command writes to its standard output, while it has it
ChildWrite ==
  /\ wpc \in {"select", "body", "poll"}
  /\ child = "running"
  /\ child_out = "open"
  /\ \E chunk \in Writes :
       /\ Len(produced) + Len(chunk) <= MaxOutput
       /\ pipe' = pipe \o chunk
       /\ produced' = produced \o chunk
  /\ silent' = 0
  /\ UNCHANGED <<watchdogSide, child, child_out, child_rc, notWatchdog>>

\* the command closes its standard output and standard error and runs on
ChildClose ==
  /\ wpc \in {"select", "body", "poll"}
  /\ child = "running"
  /\ child_out = "open"
  /\ child_out' = "closed"
  /\ UNCHANGED <<watchdogSide, child, child_rc, pipe, produced, silent,
                 notWatchdog>>

\* the command ends on its own
ChildExit ==
  /\ wpc \in {"select", "body", "poll"}
  /\ child = "running"
  /\ child' = "exited"
  /\ child_out' = "closed"
  /\ child_rc' \in OwnCodes
  /\ UNCHANGED <<watchdogSide, pipe, produced, silent, notWatchdog>>

\* a second passes while the watchdog waits in select
Tick ==
  /\ wpc = "select"
  /\ age_output' = Min(age_output + 1, MaxIdle)
  /\ age_notify' = Min(age_notify + 1, MaxIdle)
  /\ select_wait' = Min(select_wait + 1, 1)
  /\ silent' = IF child = "running" THEN Min(silent + 1, MaxIdle) ELSE silent
  /\ UNCHANGED <<inactivity_limit, notify_interval, wpc, ready_fds, exit_code,
                 console, log_file, child, child_out, child_rc, pipe,
                 produced, notWatchdog>>

\* select returns: at once when the pipe holds bytes or is at end of file,
\* with no descriptor once the second of its timeout has passed
Select ==
  /\ wpc = "select"
  /\ \/ /\ pipe # <<>> \/ child_out = "closed"
        /\ ready_fds' = TRUE
     \/ /\ pipe = <<>> /\ child_out = "open"
        /\ select_wait >= 1
        /\ ready_fds' = FALSE
  /\ wpc' = "body"
  /\ UNCHANGED <<inactivity_limit, notify_interval, age_output, age_notify,
                 select_wait, exit_code, console, log_file, child, child_out,
                 child_rc, pipe, produced, silent, notWatchdog>>

\* os.read returned bytes: they are decoded and written to both outputs
ReadChunk ==
  /\ wpc = "body"
  /\ ready_fds
  /\ pipe # <<>>
  /\ LET size == Min(Len(pipe), ReadSize)
     IN /\ console' = console \o Decode(SubSeq(pipe, 1, size))
        /\ log_file' = log_file \o Decode(SubSeq(pipe, 1, size))
        /\ pipe' = SubSeq(pipe, size + 1, Len(pipe))
  /\ age_output' = 0
  /\ age_notify' = 0
  /\ wpc' = "poll"
  /\ UNCHANGED <<inactivity_limit, notify_interval, ready_fds, select_wait,
                 exit_code, child, child_out, child_rc, produced, silent,
                 notWatchdog>>

\* os.read returned nothing, the end of file: the loop ends if the command
\* has ended
ReadEof ==
  /\ wpc = "body"
  /\ ready_fds
  /\ pipe = <<>>
  /\ wpc' = IF child = "exited" THEN "finally" ELSE "poll"
  /\ UNCHANGED <<inactivity_limit, notify_interval, ready_fds, age_output,
                 age_notify, select_wait, exit_code, console, log_file, child,
                 child_out, child_rc, pipe, produced, silent, notWatchdog>>

\* no descriptor was ready and the limit is reached: the command is
\* terminated, unless it has ended, and the exit code is 124
Timeout ==
  /\ wpc = "body"
  /\ ~ready_fds
  /\ inactivity_limit # 0 /\ age_output >= inactivity_limit
  /\ console' = Noted(console, TerminatingNote)
  /\ log_file' = Noted(log_file, TerminatingNote)
  /\ IF child = "exited"
     THEN UNCHANGED <<child, child_out, child_rc>>
     ELSE /\ child' = "exited"
          /\ child_out' = "closed"
          /\ child_rc' \in KilledCodes
  /\ exit_code' = 124
  /\ wpc' = "finally"
  /\ UNCHANGED <<inactivity_limit, notify_interval, ready_fds, age_output,
                 age_notify, select_wait, pipe, produced, silent, notWatchdog>>

\* no descriptor was ready, the limit is not reached, a notification is due
Notify ==
  /\ wpc = "body"
  /\ ~ready_fds
  /\ ~(inactivity_limit # 0 /\ age_output >= inactivity_limit)
  /\ notify_interval # 0 /\ age_notify >= notify_interval
  /\ console' = Noted(console, WaitingNote)
  /\ log_file' = Noted(log_file, WaitingNote)
  /\ age_notify' = 0
  /\ wpc' = "poll"
  /\ UNCHANGED <<inactivity_limit, notify_interval, ready_fds, age_output,
                 select_wait, exit_code, child, child_out, child_rc, pipe,
                 produced, silent, notWatchdog>>

\* no descriptor was ready and nothing is due
Quiet ==
  /\ wpc = "body"
  /\ ~ready_fds
  /\ ~(inactivity_limit # 0 /\ age_output >= inactivity_limit)
  /\ ~(notify_interval # 0 /\ age_notify >= notify_interval)
  /\ wpc' = "poll"
  /\ UNCHANGED <<inactivity_limit, notify_interval, ready_fds, age_output,
                 age_notify, select_wait, exit_code, console, log_file, child,
                 child_out, child_rc, pipe, produced, silent, notWatchdog>>

\* the last statement of the loop: it ends when the command has ended and
\* the last select found no descriptor ready
Poll ==
  /\ wpc = "poll"
  /\ wpc' = IF child = "exited" /\ ~ready_fds THEN "finally" ELSE "select"
  /\ select_wait' = 0
  /\ UNCHANGED <<inactivity_limit, notify_interval, ready_fds, age_output,
                 age_notify, exit_code, console, log_file, child, child_out,
                 child_rc, pipe, produced, silent, notWatchdog>>

\* KeyboardInterrupt inside the loop
Interrupt ==
  /\ wpc \in {"select", "body", "poll"}
  /\ console' = Noted(console, InterruptNote)
  /\ log_file' = Noted(log_file, InterruptNote)
  /\ IF child = "exited"
     THEN UNCHANGED <<child, child_out, child_rc>>
     ELSE /\ child' = "exited"
          /\ child_out' = "closed"
          /\ child_rc' \in KilledCodes
  /\ exit_code' = 130
  /\ wpc' = "finally"
  /\ UNCHANGED <<inactivity_limit, notify_interval, ready_fds, age_output,
                 age_notify, select_wait, pipe, produced, silent, notWatchdog>>

\* finally: the watchdog closes its end of the pipe, and what the pipe
\* holds is gone
Finally ==
  /\ wpc = "finally"
  /\ pipe' = <<>>
  /\ wpc' = "wait"
  /\ UNCHANGED <<inactivity_limit, notify_interval, ready_fds, age_output,
                 age_notify, select_wait, exit_code, console, log_file, child,
                 child_out, child_rc, produced, silent, notWatchdog>>

\* proc.wait, the summary and the return of main
Finish ==
  /\ wpc = "wait"
  /\ exit_code # NoCode \/ child = "exited"
  /\ exit_code' = IF exit_code = NoCode THEN child_rc ELSE exit_code
  /\ console' = Noted(console, Summary)
  /\ log_file' = Noted(log_file, Summary)
  /\ wpc' = "done"
  /\ UNCHANGED <<inactivity_limit, notify_interval, ready_fds, age_output,
                 age_notify, select_wait, child, child_out, child_rc, pipe,
                 produced, silent, notWatchdog>>

WatchdogStep ==
  \/ Select
  \/ ReadChunk
  \/ ReadEof
  \/ Timeout
  \/ Notify
  \/ Quiet
  \/ Poll
  \/ Finally
  \/ Finish

WatchdogNext ==
  \/ ChildWrite
  \/ ChildClose
  \/ ChildExit
  \/ Tick
  \/ Interrupt
  \/ WatchdogStep

Watchdog == WatchdogInit /\ [][WatchdogNext]_vars

\* the watchdog is a running process and the clock runs; nothing obliges the
\* command to write, to close its output or to end, nor anybody to interrupt
WatchdogLive ==
  /\ Watchdog
  /\ WF_vars(Tick)
  /\ WF_vars(WatchdogStep)

(***************************************************************************)
(* Properties of the watchdog                                              *)
(***************************************************************************)

\* the command runs and has written nothing for at least the limit
RunningSilent ==
  /\ inactivity_limit > 0
  /\ child = "running"
  /\ silent >= inactivity_limit

\* the watchdog has terminated the command for its silence
TimedOut == exit_code = 124 /\ child = "exited"

\* C14: with a positive inactivity limit, whenever the command runs and
\* has written nothing for at least the limit, the watchdog eventually
\* terminates it with exit code 124, in every state of the command, also
\* after it has closed its output; the command may escape only by writing
\* again or by ending first, on its own or by an interrupt.
C14_InactivityTimeout == RunningSilent ~> (TimedOut \/ ~RunningSilent)

\* what was written of the command's output, the watchdog's own messages
\* left out
OutputOf(written) ==
  SelectSeq(written, LAMBDA item : item \in {"a", "e-acute", "U+FFFD"})

\* main has returned and the command ended on its own
EndedOnItsOwn == wpc = "done" /\ exit_code \in OwnCodes

\* C20: when the command ends on its own, every chunk it wrote before
\* exiting has been written to stdout and to the log file, in the order
\* produced, before the summary, whatever the interleaving of the command's
\* writes and exit with the select/poll loop.
C20_TeeComplete ==
  EndedOnItsOwn =>
    /\ OutputOf(console) = Decode(produced)
    /\ OutputOf(log_file) = Decode(produced)
    /\ console[Len(console)] = Summary
    /\ log_file[Len(log_file)] = Summary

(***************************************************************************)
(* The loops of process_file and collect_statement, one iteration at a     *)
(* time.  `at` is idx in the first loop of process_file and cur in the     *)
(* second; `scan` is cur in collect_statement.  Lines are numbered from 1, *)
(* so that `cur < len(lines)` reads `at <= Len(src)`.                      *)
(***************************************************************************)

\* the loops begin on the lines of a file
LoopsInit ==
  /\ FileOff
  /\ crates = {}
  /\ RunOff
  /\ WatchdogOff
  /\ src \in {splitlines(t) : t \in Files}
  /\ loop = "prefix"
  /\ at = 1
  /\ scan = 1
  /\ balance = 0
  /\ collected = <<>>

\* the first loop takes a blank line, a comment line, the opening of a block
\* comment or a line that starts with #! into the prefix
PrefixLine ==
  /\ loop = "prefix"
  /\ at <= Len(src)
  /\ \/ strip(src[at]) = <<>>
     \/ COMMENT_RE(src[at])
     \/ BLOCK_COMMENT_START_RE(src[at])
     \/ Head(src[at]) = "#!"
  /\ at' = at + 1
  /\ UNCHANGED <<src, loop, scan, balance, collected, notLoops>>

\* the first loop ends: by a break at an attribute, an import or a submodule
\* opener, by `return None` at another line, or at the end of the lines
PrefixEnds ==
  /\ loop = "prefix"
  /\ ~(/\ at <= Len(src)
       /\ \/ strip(src[at]) = <<>>
          \/ COMMENT_RE(src[at])
          \/ BLOCK_COMMENT_START_RE(src[at])
          \/ Head(src[at]) = "#!")
  /\ loop' = IF at > Len(src) THEN "statement"
             ELSE IF ATTR_RE(src[at]) \/ USE_RE(src[at]) \/ MOD_RE(src[at])
                  THEN "statement"
             ELSE "none"
  /\ UNCHANGED <<src, at, scan, balance, collected, notLoops>>

\* the second loop calls collect_statement(lines, cur), or ends at the end
\* of the lines
StatementBegins ==
  /\ loop = "statement"
  /\ loop' = IF at <= Len(src) THEN "attrs" ELSE "done"
  /\ scan' = at
  /\ UNCHANGED <<src, at, balance, collected, notLoops>>

\* the attribute loop of collect_statement takes a line
AttrLineTaken ==
  /\ loop = "attrs"
  /\ scan <= Len(src)
  /\ ATTR_RE(src[scan])
  /\ scan' = scan + 1
  /\ UNCHANGED <<src, loop, at, balance, collected, notLoops>>

\* the attribute loop has ended at a line that opens no statement, or at the
\* end of the lines: collect_statement returns (None, idx) and the second
\* loop breaks
NoStatement ==
  /\ loop = "attrs"
  /\ \/ scan > Len(src)
     \/ /\ scan <= Len(src)
        /\ ~ATTR_RE(src[scan])
        /\ ~USE_RE(src[scan])
        /\ ~MOD_RE(src[scan])
  /\ loop' = "done"
  /\ UNCHANGED <<src, at, scan, balance, collected, notLoops>>

\* the attribute loop has ended at an import opener: the statement is
\* complete when the line holds its semicolon, else the multi-line loop
\* begins
UseOpens ==
  /\ loop = "attrs"
  /\ scan <= Len(src)
  /\ ~ATTR_RE(src[scan])
  /\ USE_RE(src[scan])
  /\ balance' = BraceDelta(src[scan])
  /\ scan' = scan + 1
  /\ IF count(src[scan], ";") > 0 /\ BraceDelta(src[scan]) <= 0
     THEN /\ collected' = Append(collected, [kind |-> "use", first |-> at, last |-> scan])
          /\ at' = scan + 1
          /\ loop' = "blank"
     ELSE /\ loop' = "multi"
          /\ UNCHANGED <<at, collected>>
  /\ UNCHANGED <<src, notLoops>>

\* the attribute loop has ended at a submodule opener
ModOpens ==
  /\ loop = "attrs"
  /\ scan <= Len(src)
  /\ ~ATTR_RE(src[scan])
  /\ ~USE_RE(src[scan])
  /\ MOD_RE(src[scan])
  /\ collected' = Append(collected, [kind |-> "mod", first |-> at, last |-> scan])
  /\ at' = scan + 1
  /\ scan' = scan + 1
  /\ loop' = "blank"
  /\ UNCHANGED <<src, balance, notLoops>>

\* a multi-line loop that counts the braces of the line and stays on it
MultiLine_Stays ==
  /\ loop = "multi"
  /\ scan <= Len(src)
  /\ balance' = balance + BraceDelta(src[scan])
  /\ UNCHANGED <<src, loop, at, scan, collected, notLoops>>

\* the multi-line loop takes a line into the statement, which is complete
\* when the line holds a semicolon and the braces are balanced
MultiLine ==
  /\ loop = "multi"
  /\ scan <= Len(src)
  /\ balance' = balance + BraceDelta(src[scan])
  /\ scan' = scan + 1
  /\ IF count(src[scan], ";") > 0 /\ balance + BraceDelta(src[scan]) <= 0
     THEN /\ collected' = Append(collected, [kind |-> "use", first |-> at, last |-> scan])
          /\ at' = scan + 1
          /\ loop' = "blank"
     ELSE UNCHANGED <<loop, at, collected>>
  /\ UNCHANGED <<src, notLoops>>

\* the multi-line loop reaches the end of the lines without a semicolon:
\* the statement runs to the end of the file
MultiEnds ==
  /\ loop = "multi"
  /\ scan > Len(src)
  /\ collected' = Append(collected, [kind |-> "use", first |-> at, last |-> Len(src)])
  /\ at' = scan
  /\ loop' = "blank"
  /\ UNCHANGED <<src, scan, balance, notLoops>>

\* a loop after a statement that ends at its first blank line
BlankLine_Ends ==
  /\ loop = "blank"
  /\ at <= Len(src)
  /\ strip(src[at]) = <<>>
  /\ loop' = "statement"
  /\ UNCHANGED <<src, at, scan, balance, collected, notLoops>>

\* a loop after a statement that absorbs a line, blank or not
BlankLine_AnyLine ==
  /\ loop = "blank"
  /\ at <= Len(src)
  /\ at' = at + 1
  /\ UNCHANGED <<src, loop, scan, balance, collected, notLoops>>

\* the loop that absorbs the blank lines after a statement takes a line
BlankLine ==
  /\ loop = "blank"
  /\ at <= Len(src)
  /\ strip(src[at]) = <<>>
  /\ at' = at + 1
  /\ UNCHANGED <<src, loop, scan, balance, collected, notLoops>>

\* that loop ends and the second loop goes round
BlankEnds ==
  /\ loop = "blank"
  /\ ~(at <= Len(src) /\ strip(src[at]) = <<>>)
  /\ loop' = "statement"
  /\ UNCHANGED <<src, at, scan, balance, collected, notLoops>>

LoopsNext ==
  \/ PrefixLine
  \/ PrefixEnds
  \/ StatementBegins
  \/ AttrLineTaken
  \/ NoStatement
  \/ UseOpens
  \/ ModOpens
  \/ MultiLine
  \/ MultiEnds
  \/ BlankLine
  \/ BlankEnds

Loops == LoopsInit /\ [][LoopsNext]_vars

\* the interpreter goes on with the next iteration
LoopsLive == Loops /\ WF_vars(LoopsNext)

(***************************************************************************)
(* Properties of the loops                                                 *)
(***************************************************************************)

\* both loops of process_file are left
Finished == loop \in {"none", "done"}

\* the loops, taken as a whole, compute what Sections computes
LoopsAgree ==
  loop = "done" =>
    LET sec == Sections(concat(src), {})
    IN /\ sec.found
       /\ Len(sec.statements) = Len(collected)
       /\ \A i \in 1..Len(collected) :
            /\ sec.statements[i].kind = collected[i].kind
            /\ sec.statements[i].lines = SubSeq(src, collected[i].first, collected[i].last)
       /\ sec.suffix = SubSeq(src, at, Len(src))

\* an iteration that stays in its loop moves that loop's index forward, and
\* a collected statement moves the index of the second loop forward
StrictAdvance ==
  /\ (loop = "prefix" /\ loop' = "prefix") => at' > at
  /\ (loop = "attrs" /\ loop' = "attrs") => scan' > scan
  /\ (loop = "multi" /\ loop' = "multi") => scan' > scan
  /\ (loop = "blank" /\ loop' = "blank") => at' > at
  /\ (loop \in {"attrs", "multi"} /\ loop' = "blank") => (at' > at /\ at' <= Len(src) + 1)
  /\ at' >= at
  /\ at' <= Len(src) + 1
  /\ scan' <= Len(src) + 1

\* C19: on every finite sequence of lines process_file leaves its loops:
\* each iteration of the prefix loop, of the statement-collection loop, of
\* the multi-line import loop (also for an import without its semicolon,
\* which runs to the end of the file) and of the blank-line loop moves the
\* line index strictly forward, and the index never passes the end of the
\* lines.
C19_Termination == [][StrictAdvance]_vars /\ <>Finished

\* the loops are left after an import written over several lines without a
\* semicolon, which ran to the end of the file
C19_Witness ==
  /\ loop = "done"
  /\ \E i \in 1..Len(collected) :
       /\ collected[i].kind = "use"
       /\ collected[i].last = Len(src)
       /\ collected[i].last - collected[i].first >= 1
       /\ \A k \in collected[i].first..collected[i].last : count(src[k], ";") = 0

\* the loops are left with a run of statements: prefix = lines[:idx], the
\* statements, suffix = lines[cur:]
RunFound == loop = "done" /\ collected # <<>>

ThePrefix == SubSeq(src, 1, collected[1].first - 1)

TheStatements == [i \in 1..Len(collected) |-> SubSeq(src, collected[i].first, collected[i].last)]

TheSuffix == SubSeq(src, at, Len(src))

\* a line that opens an attribute
IsAttrOpener(line) == NoWs(line) # <<>> /\ NoWs(line)[1] = "#["

\* lines i, i + 1, ... start a statement: attribute lines, none or more,
\* then a line that opens an import or a submodule declaration
StartsStatement(lines, i) ==
  \E j \in i..Len(lines) :
     /\ \A k \in i..(j - 1) : IsAttrOpener(lines[k])
     /\ IsOpener(lines[j])
     /\ ~IsAttrOpener(lines[j])

\* C16 as stated: the run of statements ends at the first line, after the
\* absorbed blank lines, that opens neither an attribute, an import nor a
\* submodule declaration, and the suffix is the lines from that line to the
\* end of file.
C16_RunEndsAtNonOpener ==
  RunFound =>
    /\ \A i \in 1..Len(TheStatements) : IsOpener(TheStatements[i][1])
    /\ TheSuffix # <<>> => ~IsOpener(TheSuffix[1])

\* C16: the run of statements ends at the first line, after the absorbed
\* blank lines, that does not start a statement: a line that is no opener,
\* or attribute lines not followed by the opener of an import or of a
\* submodule declaration; the suffix is the lines from that line to the end
\* of file, and it does not begin with a blank line.
C16_RunEnd ==
  RunFound =>
    /\ \A i \in 1..Len(TheStatements) : StartsStatement(TheStatements[i], 1)
    /\ TheSuffix # <<>> =>
         /\ \E t \in 1..Len(TheSuffix[1]) : TheSuffix[1][t] \notin WS
         /\ ~StartsStatement(TheSuffix, 1)

\* the run of a file ends at an attribute line that belongs to no statement
\* and is followed by another line
C16_Witness ==
  /\ RunFound
  /\ Len(TheSuffix) >= 2
  /\ IsAttrOpener(TheSuffix[1])

\* the first line from line i to line last that is not blank, last + 1 if
\* there is none
AfterBlanks(lines, i, last) ==
  CHOOSE j \in i..(last + 1) :
    /\ \A k \in i..(j - 1) : \A t \in 1..Len(lines[k]) : lines[k][t] \in WS
    /\ j <= last => \E t \in 1..Len(lines[j]) : lines[j][t] \notin WS

RECURSIVE StatementsThenBlanks(_, _, _, _, _)
\* the lines from line i to line last are the lines of the statements from
\* statement n on, each followed by blank lines, none or more
StatementsThenBlanks(lines, i, last, statements, n) ==
  IF n > Len(statements) THEN i = last + 1
  ELSE LET size == Len(statements[n])
       IN /\ i + size - 1 <= last
          /\ SubSeq(lines, i, i + size - 1) = statements[n]
          /\ StatementsThenBlanks(lines, AfterBlanks(lines, i + size, last), last,
                                  statements, n + 1)

\* C17 as stated: for a file in which a run of statements is found, the
\* prefix lines, the lines of the collected statements in order and the
\* suffix lines, concatenated, are the content of the file.
C17_Lossless ==
  RunFound => ThePrefix \o concat(TheStatements) \o TheSuffix = src

\* C17: for a file in which a run of statements is found, the prefix is
\* the first lines of the file, the suffix its last lines, and the lines
\* between them are the lines of the collected statements in order, each
\* statement followed by the blank lines the loop absorbed: the
\* concatenation is the content of the file less those blank lines.
C17_LosslessButBlanks ==
  RunFound =>
    /\ Len(ThePrefix) + Len(TheSuffix) <= Len(src)
    /\ \A i \in 1..Len(ThePrefix) : IsPrefixLine(ThePrefix[i])
    /\ StatementsThenBlanks(src, Len(ThePrefix) + 1, Len(src) - Len(TheSuffix),
                            TheStatements, 1)

\* a file with two statements or more, in which the loop absorbed a blank
\* line
C17_Witness ==
  /\ RunFound
  /\ Len(collected) >= 2
  /\ Len(ThePrefix) + Len(concat(TheStatements)) + Len(TheSuffix) < Len(src)

====
